---- MODULE Spec2Model ----
(***************************************************************************)
(* Syntax tree traversal (src/syntax/visit.rs).                            *)
(*                                                                         *)
(* The `visit!` macro generates, for every kind of syntax node, a trait    *)
(* method `Visit::visit_X` whose default body calls the free walker        *)
(* function `visit_X`, which in turn recurses through the visitor `v`.     *)
(* The walk is modelled as a machine over an agenda of pending calls: one  *)
(* step performs the call at the head of the agenda, records it in         *)
(* `trace`, and puts the calls of the walker's body, in program order, in  *)
(* front of the rest of the agenda (depth-first, as the call stack does).  *)
(***************************************************************************)
EXTENDS Integers, Sequences, FiniteSets, TLC

\* Largest number of Node and Expr values in the Tree handed to the walk.
MaxSize == 3
\* Largest number of parameters of a closure.
MaxParams == 2

(***************************************************************************)
(* The syntax tree, as the walkers read it.  An optional child is a        *)
(* sequence of length 0 or 1.  Identifiers carry no data the walk reads.   *)
(***************************************************************************)
Ident == [kind |-> "Ident"]
Lit == [kind |-> "Lit"]
Array(items) == [kind |-> "Array", items |-> items]
Named(expr) == [name |-> Ident, expr |-> expr]
Dict(items) == [kind |-> "Dict", items |-> items]
Template(tree) == [kind |-> "Template", tree |-> tree]
Group(expr) == [kind |-> "Group", expr |-> expr]
Block(scoping, exprs) == [kind |-> "Block", scoping |-> scoping, exprs |-> exprs]
Unary(expr) == [kind |-> "Unary", expr |-> expr]
Binary(lhs, rhs) == [kind |-> "Binary", lhs |-> lhs, rhs |-> rhs]
ArgPos(expr) == [kind |-> "Pos", expr |-> expr]
ArgNamed(expr) == [kind |-> "Named", name |-> Ident, expr |-> expr]
ExprCall(callee, args) == [kind |-> "Call", callee |-> callee, args |-> [items |-> args]]
Closure(params, body) == [kind |-> "Closure", params |-> params, body |-> body]
Let(init) == [kind |-> "Let", binding |-> Ident, init |-> init]
If(condition, if_body, else_body) ==
    [kind |-> "If", condition |-> condition, if_body |-> if_body, else_body |-> else_body]
While(condition, body) == [kind |-> "While", condition |-> condition, body |-> body]
PatValue == [kind |-> "Value", value |-> Ident]
PatKeyValue == [kind |-> "KeyValue", key |-> Ident, value |-> Ident]
For(pattern, iter, body) ==
    [kind |-> "For", pattern |-> pattern, iter |-> iter, body |-> body]

\* A Node variant without children: Strong, Emph, Space, Linebreak, Parbreak,
\* Text or Raw (the payloads of Text and Raw are never read).
Markup(kind) == [kind |-> kind]
Heading(contents) == [kind |-> "Heading", contents |-> contents]
NodeExpr(expr) == [kind |-> "Expr", expr |-> expr]

(***************************************************************************)
(* The trees the walk is run on: every Tree of at most MaxSize values      *)
(* (with the childless Node variants drawn from EnumMarkup, which the      *)
(* walkers treat alike), and the named trees further below.                *)
(***************************************************************************)
EnumMarkup == {"Text", "Space"}

RECURSIVE TreesOfSize(_), NodesOfSize(_), ExprsOfSize(_), ExprSeqsOfSize(_),
          ArgSeqsOfSize(_)

\* Sequences of at most n identifiers.
IdentSeqs(n) == UNION {[1..k -> {Ident}] : k \in 0..n}

\* Pairs of expressions of total size n.
ExprPairsOfSize(n) ==
    UNION {ExprsOfSize(k) \X ExprsOfSize(n - k) : k \in 1..(n - 1)}

\* Triples of expressions of total size n.
ExprTriplesOfSize(n) ==
    UNION {{<<e, pr[1], pr[2]>> : e \in ExprsOfSize(k), pr \in ExprPairsOfSize(n - k)}
           : k \in 1..(n - 2)}

\* Vec<Expr> of total size n.
ExprSeqsOfSize(n) ==
    IF n = 0 THEN {<< >>}
    ELSE UNION {{<<e>> \o s : e \in ExprsOfSize(k), s \in ExprSeqsOfSize(n - k)}
                : k \in 1..n}

\* Vec<Named> of total size n.
NamedSeqsOfSize(n) ==
    {[i \in 1..Len(s) |-> Named(s[i])] : s \in ExprSeqsOfSize(n)}

\* Vec<ExprArg> of total size n.
ArgSeqsOfSize(n) ==
    IF n = 0 THEN {<< >>}
    ELSE UNION {{<<a>> \o s :
                   a \in {ArgPos(e) : e \in ExprsOfSize(k)}
                         \cup {ArgNamed(e) : e \in ExprsOfSize(k)},
                   s \in ArgSeqsOfSize(n - k)}
                : k \in 1..n}

\* Expr values made of exactly n Node and Expr values.
ExprsOfSize(n) ==
    IF n < 1 THEN {}
    ELSE
      (IF n = 1 THEN {Lit, Ident, Let(<< >>)} ELSE {})
      \cup {Array(s) : s \in ExprSeqsOfSize(n - 1)}
      \cup {Dict(s) : s \in NamedSeqsOfSize(n - 1)}
      \cup {Template(t) : t \in TreesOfSize(n - 1)}
      \cup {Group(e) : e \in ExprsOfSize(n - 1)}
      \cup {Block(b, s) : b \in BOOLEAN, s \in ExprSeqsOfSize(n - 1)}
      \cup {Unary(e) : e \in ExprsOfSize(n - 1)}
      \cup {Binary(pr[1], pr[2]) : pr \in ExprPairsOfSize(n - 1)}
      \cup UNION {{ExprCall(e, a) : e \in ExprsOfSize(k), a \in ArgSeqsOfSize(n - 1 - k)}
                  : k \in 1..(n - 1)}
      \cup {Closure(ps, e) : ps \in IdentSeqs(MaxParams), e \in ExprsOfSize(n - 1)}
      \cup {Let(<<e>>) : e \in ExprsOfSize(n - 1)}
      \cup {If(pr[1], pr[2], << >>) : pr \in ExprPairsOfSize(n - 1)}
      \cup {If(tr[1], tr[2], <<tr[3]>>) : tr \in ExprTriplesOfSize(n - 1)}
      \cup {While(pr[1], pr[2]) : pr \in ExprPairsOfSize(n - 1)}
      \cup {For(pt, pr[1], pr[2])
            : pt \in {PatValue, PatKeyValue}, pr \in ExprPairsOfSize(n - 1)}

\* Node values made of exactly n Node and Expr values.
NodesOfSize(n) ==
    IF n < 1 THEN {}
    ELSE
      (IF n = 1 THEN {Markup(k) : k \in EnumMarkup} ELSE {})
      \cup {Heading(t) : t \in TreesOfSize(n - 1)}
      \cup {NodeExpr(e) : e \in ExprsOfSize(n - 1)}

\* Tree values (Vec<Node>) made of exactly n Node and Expr values.
TreesOfSize(n) ==
    IF n = 0 THEN {<< >>}
    ELSE UNION {{<<nd>> \o t : nd \in NodesOfSize(k), t \in TreesOfSize(n - k)}
                : k \in 1..n}

\* Every Tree of at most n Node and Expr values.
TreesUpTo(n) == UNION {TreesOfSize(k) : k \in 0..n}

\* spec scenario A: a heading holding one text node.
ScenarioA == <<Heading(<<Markup("Text")>>)>>

\* spec scenario B: a scoping block holding `let x = <lit>`.
ScenarioB == <<NodeExpr(Block(TRUE, <<Let(<<Lit>>)>>))>>

\* spec scenario C: `for k, v in xs` with an empty non-scoping block as body.
ScenarioC == <<NodeExpr(For(PatKeyValue, Ident, Block(FALSE, << >>)))>>

\* An expression inside a group inside a heading.
HeadingGroup == <<Heading(<<NodeExpr(Group(Lit))>>)>>

\* One node of every childless kind.
AllMarkup ==
    <<Markup("Strong"), Markup("Emph"), Markup("Space"), Markup("Linebreak"),
      Markup("Parbreak"), Markup("Text"), Markup("Raw")>>

\* A template with nested content, between nodes outside of it.
TemplateAmong ==
    <<Markup("Text"),
      NodeExpr(Array(<<Template(<<Heading(<<NodeExpr(Let(<<Lit>>))>>),
                                  NodeExpr(Block(TRUE, <<Ident>>))>>),
                       Lit>>)),
      Markup("Raw")>>

\* A closure whose body is a scoping block that uses and binds names and holds
\* a closure without parameters.
ClosureScoped ==
    <<NodeExpr(Closure(<<Ident, Ident>>,
                       Block(TRUE, <<Ident, Let(<<Closure(<< >>, Ident)>>)>>)))>>

\* Nested for loops whose bodies open scopes (a scoping block, a template).
ForScoped ==
    <<NodeExpr(For(PatKeyValue, Ident,
                   Block(TRUE, <<For(PatValue, Array(<< >>),
                                     Template(<<Markup("Text")>>))>>)))>>

\* A tree holding every kind of expression.
Everything ==
    <<NodeExpr(ExprCall(Ident,
        <<ArgPos(Dict(<<Named(Binary(Lit, Unary(Ident)))>>)),
          ArgNamed(If(Lit,
                      Block(FALSE, <<While(Lit, Group(Lit))>>),
                      <<Closure(<<Ident>>,
                                Template(<<Heading(<<NodeExpr(Let(<< >>))>>)>>))>>)),
          ArgPos(For(PatValue, Array(<<Ident, Lit>>), Block(TRUE, << >>)))>>))>>

Scenarios ==
    {ScenarioA, ScenarioB, ScenarioC, HeadingGroup, AllMarkup, TemplateAmong,
     ClosureScoped, ForScoped, Everything}

(***************************************************************************)
(* Positions.  A value of the tree is named by the path of child indices   *)
(* leading to it from the root Tree (path << >>).  The i-th element of a   *)
(* Vec has index i below the Vec; the fields of a struct are numbered in   *)
(* declaration order.                                                       *)
(***************************************************************************)
\* A pending call `v.op(node)` on the value at `path`.
Call(op, node, path) == [op |-> op, node |-> node, path |-> path]

\* A pending call of one of the three hooks; `path` is the identifier bound
\* (visit_binding) or the expression opening the scope (visit_enter/exit).
Hook(op, path) == [op |-> op, node |-> << >>, path |-> path]

HookOps == {"visit_binding", "visit_enter", "visit_exit"}

WalkOps == {"visit_tree", "visit_node", "visit_expr", "visit_array", "visit_dict",
            "visit_template", "visit_group", "visit_block", "visit_binary",
            "visit_unary", "visit_call", "visit_closure", "visit_args", "visit_arg",
            "visit_let", "visit_if", "visit_while", "visit_for"}

(***************************************************************************)
(* The default walkers: the calls each makes on the visitor, in order.     *)
(***************************************************************************)
visit_tree(node, p) ==
    [i \in 1..Len(node) |-> Call("visit_node", node[i], p \o <<i>>)]

visit_node(node, p) ==
    CASE node.kind = "Strong" -> << >>
      [] node.kind = "Emph" -> << >>
      [] node.kind = "Space" -> << >>
      [] node.kind = "Linebreak" -> << >>
      [] node.kind = "Parbreak" -> << >>
      [] node.kind = "Text" -> << >>
      [] node.kind = "Heading" -> <<Call("visit_tree", node.contents, p \o <<1>>)>>
      [] node.kind = "Raw" -> << >>
      [] node.kind = "Expr" -> <<Call("visit_expr", node.expr, p \o <<1>>)>>

\* visit_expr, walking a template itself instead of calling the visitor.
visit_expr_template_direct(node, p) ==
    CASE node.kind = "Lit" -> << >>
      [] node.kind = "Ident" -> << >>
      [] node.kind = "Array" -> <<Call("visit_array", node, p)>>
      [] node.kind = "Dict" -> <<Call("visit_dict", node, p)>>
      [] node.kind = "Template" ->
           <<Hook("visit_enter", p),
             Call("visit_tree", node.tree, p \o <<1>>),
             Hook("visit_exit", p)>>
      [] node.kind = "Group" -> <<Call("visit_group", node, p)>>
      [] node.kind = "Block" -> <<Call("visit_block", node, p)>>
      [] node.kind = "Unary" -> <<Call("visit_unary", node, p)>>
      [] node.kind = "Binary" -> <<Call("visit_binary", node, p)>>
      [] node.kind = "Call" -> <<Call("visit_call", node, p)>>
      [] node.kind = "Closure" -> <<Call("visit_closure", node, p)>>
      [] node.kind = "Let" -> <<Call("visit_let", node, p)>>
      [] node.kind = "If" -> <<Call("visit_if", node, p)>>
      [] node.kind = "While" -> <<Call("visit_while", node, p)>>
      [] node.kind = "For" -> <<Call("visit_for", node, p)>>

visit_expr(node, p) ==
    CASE node.kind = "Lit" -> << >>
      [] node.kind = "Ident" -> << >>
      [] node.kind = "Array" -> <<Call("visit_array", node, p)>>
      [] node.kind = "Dict" -> <<Call("visit_dict", node, p)>>
      [] node.kind = "Template" -> <<Call("visit_template", node, p)>>
      [] node.kind = "Group" -> <<Call("visit_group", node, p)>>
      [] node.kind = "Block" -> <<Call("visit_block", node, p)>>
      [] node.kind = "Unary" -> <<Call("visit_unary", node, p)>>
      [] node.kind = "Binary" -> <<Call("visit_binary", node, p)>>
      [] node.kind = "Call" -> <<Call("visit_call", node, p)>>
      [] node.kind = "Closure" -> <<Call("visit_closure", node, p)>>
      [] node.kind = "Let" -> <<Call("visit_let", node, p)>>
      [] node.kind = "If" -> <<Call("visit_if", node, p)>>
      [] node.kind = "While" -> <<Call("visit_while", node, p)>>
      [] node.kind = "For" -> <<Call("visit_for", node, p)>>

visit_array(node, p) ==
    [i \in 1..Len(node.items) |-> Call("visit_expr", node.items[i], p \o <<i>>)]

visit_dict(node, p) ==
    [i \in 1..Len(node.items) |-> Call("visit_expr", node.items[i].expr, p \o <<i, 2>>)]

\* visit_template, with the scope closed before the tree is walked.
visit_template_early_exit(node, p) ==
    <<Hook("visit_enter", p),
      Hook("visit_exit", p),
      Call("visit_tree", node.tree, p \o <<1>>)>>

visit_template(node, p) ==
    <<Hook("visit_enter", p),
      Call("visit_tree", node.tree, p \o <<1>>),
      Hook("visit_exit", p)>>

\* visit_group, calling the walker of its child instead of the visitor.
visit_group_direct(node, p) ==
    visit_expr(node.expr, p \o <<1>>)

visit_group(node, p) ==
    <<Call("visit_expr", node.expr, p \o <<1>>)>>

\* visit_block, with visit_exit called whatever `scoping` is.
visit_block_always_exit(node, p) ==
    (IF node.scoping THEN <<Hook("visit_enter", p)>> ELSE << >>)
    \o [i \in 1..Len(node.exprs) |-> Call("visit_expr", node.exprs[i], p \o <<i>>)]
    \o <<Hook("visit_exit", p)>>

visit_block(node, p) ==
    (IF node.scoping THEN <<Hook("visit_enter", p)>> ELSE << >>)
    \o [i \in 1..Len(node.exprs) |-> Call("visit_expr", node.exprs[i], p \o <<i>>)]
    \o (IF node.scoping THEN <<Hook("visit_exit", p)>> ELSE << >>)

\* visit_binary, with lhs visited in place of rhs.
visit_binary_lhs_twice(node, p) ==
    <<Call("visit_expr", node.lhs, p \o <<1>>),
      Call("visit_expr", node.lhs, p \o <<1>>)>>

visit_binary(node, p) ==
    <<Call("visit_expr", node.lhs, p \o <<1>>),
      Call("visit_expr", node.rhs, p \o <<2>>)>>

visit_unary(node, p) ==
    <<Call("visit_expr", node.expr, p \o <<1>>)>>

visit_call(node, p) ==
    <<Call("visit_expr", node.callee, p \o <<1>>),
      Call("visit_args", node.args, p \o <<2>>)>>

\* visit_closure, with the body walked before the parameters are bound.
visit_closure_body_first(node, p) ==
    <<Call("visit_expr", node.body, p \o <<2>>)>>
    \o [i \in 1..Len(node.params) |-> Hook("visit_binding", p \o <<1, i>>)]

\* visit_closure, with a scope of its own around parameters and body.
visit_closure_own_scope(node, p) ==
    <<Hook("visit_enter", p)>>
    \o [i \in 1..Len(node.params) |-> Hook("visit_binding", p \o <<1, i>>)]
    \o <<Call("visit_expr", node.body, p \o <<2>>), Hook("visit_exit", p)>>

visit_closure(node, p) ==
    [i \in 1..Len(node.params) |-> Hook("visit_binding", p \o <<1, i>>)]
    \o <<Call("visit_expr", node.body, p \o <<2>>)>>

visit_args(node, p) ==
    [i \in 1..Len(node.items) |-> Call("visit_arg", node.items[i], p \o <<i>>)]

\* visit_arg, with the name of a named argument reported as a binding.
visit_arg_binds_name(node, p) ==
    CASE node.kind = "Pos" -> <<Call("visit_expr", node.expr, p \o <<1>>)>>
      [] node.kind = "Named" -> <<Hook("visit_binding", p \o <<1>>),
                                  Call("visit_expr", node.expr, p \o <<2>>)>>

visit_arg(node, p) ==
    CASE node.kind = "Pos" -> <<Call("visit_expr", node.expr, p \o <<1>>)>>
      [] node.kind = "Named" -> <<Call("visit_expr", node.expr, p \o <<2>>)>>

\* visit_let, with the initializer visited before the binding.
visit_let_init_first(node, p) ==
    (IF node.init # << >>
     THEN <<Call("visit_expr", node.init[1], p \o <<2>>)>>
     ELSE << >>)
    \o <<Hook("visit_binding", p \o <<1>>)>>

visit_let(node, p) ==
    <<Hook("visit_binding", p \o <<1>>)>>
    \o (IF node.init # << >>
        THEN <<Call("visit_expr", node.init[1], p \o <<2>>)>>
        ELSE << >>)

visit_if(node, p) ==
    <<Call("visit_expr", node.condition, p \o <<1>>),
      Call("visit_expr", node.if_body, p \o <<2>>)>>
    \o (IF node.else_body # << >>
        THEN <<Call("visit_expr", node.else_body[1], p \o <<3>>)>>
        ELSE << >>)

visit_while(node, p) ==
    <<Call("visit_expr", node.condition, p \o <<1>>),
      Call("visit_expr", node.body, p \o <<2>>)>>

\* visit_for, with the value of a key/value pattern bound before the key.
visit_for_value_first(node, p) ==
    (CASE node.pattern.kind = "Value" -> <<Hook("visit_binding", p \o <<1, 1>>)>>
       [] node.pattern.kind = "KeyValue" ->
            <<Hook("visit_binding", p \o <<1, 2>>),
              Hook("visit_binding", p \o <<1, 1>>)>>)
    \o <<Call("visit_expr", node.iter, p \o <<2>>),
         Call("visit_expr", node.body, p \o <<3>>)>>

visit_for(node, p) ==
    (CASE node.pattern.kind = "Value" -> <<Hook("visit_binding", p \o <<1, 1>>)>>
       [] node.pattern.kind = "KeyValue" ->
            <<Hook("visit_binding", p \o <<1, 1>>),
              Hook("visit_binding", p \o <<1, 2>>)>>)
    \o <<Call("visit_expr", node.iter, p \o <<2>>),
         Call("visit_expr", node.body, p \o <<3>>)>>

\* The free walker function named like the operation `op`.
Walker(op, node, p) ==
    CASE op = "visit_tree" -> visit_tree(node, p)
      [] op = "visit_node" -> visit_node(node, p)
      [] op = "visit_expr" -> visit_expr(node, p)
      [] op = "visit_array" -> visit_array(node, p)
      [] op = "visit_dict" -> visit_dict(node, p)
      [] op = "visit_template" -> visit_template(node, p)
      [] op = "visit_group" -> visit_group(node, p)
      [] op = "visit_block" -> visit_block(node, p)
      [] op = "visit_binary" -> visit_binary(node, p)
      [] op = "visit_unary" -> visit_unary(node, p)
      [] op = "visit_call" -> visit_call(node, p)
      [] op = "visit_closure" -> visit_closure(node, p)
      [] op = "visit_args" -> visit_args(node, p)
      [] op = "visit_arg" -> visit_arg(node, p)
      [] op = "visit_let" -> visit_let(node, p)
      [] op = "visit_if" -> visit_if(node, p)
      [] op = "visit_while" -> visit_while(node, p)
      [] op = "visit_for" -> visit_for(node, p)

(***************************************************************************)
(* The visitor.  An implementation of `Visit` either keeps the default     *)
(* body of an operation (which calls the walker of the same name) or       *)
(* overrides it; an overriding body either calls the walker itself         *)
(* (delegate) or does not.  The three hooks have empty default bodies.     *)
(***************************************************************************)
DefaultVisitor == [override |-> "none", delegate |-> FALSE]

OverridingVisitors == [override : WalkOps, delegate : BOOLEAN]

\* The calls made on `v` by the body of `v.op(node)` for the pending call `c`.
MethodBody(c, v) ==
    IF c.op \in HookOps THEN << >>
    ELSE IF v.override = c.op /\ ~v.delegate THEN << >>
    ELSE Walker(c.op, c.node, c.path)

\* The record of the call `c` on `v`.
Event(c, v) == [op |-> c.op, path |-> c.path, over |-> (v.override = c.op)]

\* The calls a whole walk makes on `v`, starting from the pending calls `ag`.
RECURSIVE WalkTrace(_, _)
WalkTrace(ag, v) ==
    IF ag = << >> THEN << >>
    ELSE <<Event(Head(ag), v)>> \o WalkTrace(MethodBody(Head(ag), v) \o Tail(ag), v)

\* The calls made by v.visit_tree(&t) when v overrides nothing.
DefaultTrace(t) == WalkTrace(<<Call("visit_tree", t, << >>)>>, DefaultVisitor)

VARIABLES
    tree,     \* the Tree being walked
    visitor,  \* which operation the visitor overrides, and how
    agenda,   \* the calls still to be made, next first
    trace     \* the calls made so far on the visitor, oldest first

vars == <<tree, visitor, agenda, trace>>

Trees == TreesUpTo(MaxSize) \cup Scenarios

\* The trees walked by a visitor that overrides an operation.
OverrideTrees == TreesUpTo(MaxSize - 1) \cup Scenarios

\* v.visit_tree(&tree) is about to be called.
Start(t, v) ==
    /\ tree = t
    /\ visitor = v
    /\ agenda = <<Call("visit_tree", t, << >>)>>
    /\ trace = << >>

Init == \E t \in Trees : Start(t, DefaultVisitor)

InitOverride == \E t \in OverrideTrees, v \in OverridingVisitors : Start(t, v)

\* The call at the head of the agenda is a call of the visitor's method `op`.
Called(op) ==
    /\ agenda # << >>
    /\ Head(agenda).op = op

\* The call at the head of the agenda is made: it is recorded, and the calls
\* its body makes come before the calls that were pending behind it.
Perform ==
    /\ trace' = Append(trace, Event(Head(agenda), visitor))
    /\ agenda' = MethodBody(Head(agenda), visitor) \o Tail(agenda)
    /\ UNCHANGED <<tree, visitor>>

Visit_tree == Called("visit_tree") /\ Perform
Visit_node == Called("visit_node") /\ Perform
Visit_expr == Called("visit_expr") /\ Perform
Visit_array == Called("visit_array") /\ Perform
Visit_dict == Called("visit_dict") /\ Perform
Visit_template == Called("visit_template") /\ Perform
Visit_group == Called("visit_group") /\ Perform
Visit_block == Called("visit_block") /\ Perform
Visit_binary == Called("visit_binary") /\ Perform
Visit_unary == Called("visit_unary") /\ Perform
Visit_call == Called("visit_call") /\ Perform
Visit_closure == Called("visit_closure") /\ Perform
Visit_args == Called("visit_args") /\ Perform
Visit_arg == Called("visit_arg") /\ Perform
Visit_let == Called("visit_let") /\ Perform
Visit_if == Called("visit_if") /\ Perform
Visit_while == Called("visit_while") /\ Perform
Visit_for == Called("visit_for") /\ Perform
Visit_binding == Called("visit_binding") /\ Perform
Visit_enter == Called("visit_enter") /\ Perform
Visit_exit == Called("visit_exit") /\ Perform

Next ==
    \/ Visit_tree
    \/ Visit_node
    \/ Visit_expr
    \/ Visit_array
    \/ Visit_dict
    \/ Visit_template
    \/ Visit_group
    \/ Visit_block
    \/ Visit_binary
    \/ Visit_unary
    \/ Visit_call
    \/ Visit_closure
    \/ Visit_args
    \/ Visit_arg
    \/ Visit_let
    \/ Visit_if
    \/ Visit_while
    \/ Visit_for
    \/ Visit_binding
    \/ Visit_enter
    \/ Visit_exit

\* A walk with the default body of every operation.
Spec == Init /\ [][Next]_vars

\* A walk with a visitor that overrides one operation.
SpecOverride == InitOverride /\ [][Next]_vars

\* The walk has returned.
Done == agenda = << >>

(***************************************************************************)
(* What a tree holds, by structural recursion on the tree alone (no walker *)
(* is used): every Tree, Node, Expr, Args and Arg value, every identifier  *)
(* that is bound ("Binding") or merely names an entry ("Name"), and every  *)
(* expression that opens a scope ("Scope"), each with its path.            *)
(***************************************************************************)
Part(sort, path, kind) == [sort |-> sort, path |-> path, kind |-> kind]

RECURSIVE TreeParts(_, _), NodeParts(_, _), ExprParts(_, _)

ArgParts(a, p) ==
    {Part("Arg", p, a.kind)}
    \cup (IF a.kind = "Pos" THEN ExprParts(a.expr, p \o <<1>>)
          ELSE {Part("Name", p \o <<1>>, "ArgName")} \cup ExprParts(a.expr, p \o <<2>>))

ExprParts(e, p) ==
    {Part("Expr", p, e.kind)}
    \cup
    CASE e.kind \in {"Lit", "Ident"} -> {}
      [] e.kind = "Array" ->
           UNION {ExprParts(e.items[i], p \o <<i>>) : i \in DOMAIN e.items}
      [] e.kind = "Dict" ->
           UNION {{Part("Name", p \o <<i, 1>>, "DictKey")}
                  \cup ExprParts(e.items[i].expr, p \o <<i, 2>>) : i \in DOMAIN e.items}
      [] e.kind = "Template" ->
           {Part("Scope", p, "Template")} \cup TreeParts(e.tree, p \o <<1>>)
      [] e.kind \in {"Group", "Unary"} -> ExprParts(e.expr, p \o <<1>>)
      [] e.kind = "Block" ->
           (IF e.scoping THEN {Part("Scope", p, "Block")} ELSE {})
           \cup UNION {ExprParts(e.exprs[i], p \o <<i>>) : i \in DOMAIN e.exprs}
      [] e.kind = "Binary" ->
           ExprParts(e.lhs, p \o <<1>>) \cup ExprParts(e.rhs, p \o <<2>>)
      [] e.kind = "Call" ->
           ExprParts(e.callee, p \o <<1>>)
           \cup {Part("Args", p \o <<2>>, "Args")}
           \cup UNION {ArgParts(e.args.items[i], p \o <<2, i>>) : i \in DOMAIN e.args.items}
      [] e.kind = "Closure" ->
           {Part("Binding", p \o <<1, i>>, "Param") : i \in DOMAIN e.params}
           \cup ExprParts(e.body, p \o <<2>>)
      [] e.kind = "Let" ->
           {Part("Binding", p \o <<1>>, "Let")}
           \cup UNION {ExprParts(e.init[i], p \o <<2>>) : i \in DOMAIN e.init}
      [] e.kind = "If" ->
           ExprParts(e.condition, p \o <<1>>)
           \cup ExprParts(e.if_body, p \o <<2>>)
           \cup UNION {ExprParts(e.else_body[i], p \o <<3>>) : i \in DOMAIN e.else_body}
      [] e.kind = "While" ->
           ExprParts(e.condition, p \o <<1>>) \cup ExprParts(e.body, p \o <<2>>)
      [] e.kind = "For" ->
           (IF e.pattern.kind = "Value"
            THEN {Part("Binding", p \o <<1, 1>>, "ForValue")}
            ELSE {Part("Binding", p \o <<1, 1>>, "ForKey"),
                  Part("Binding", p \o <<1, 2>>, "ForValue")})
           \cup ExprParts(e.iter, p \o <<2>>)
           \cup ExprParts(e.body, p \o <<3>>)

NodeParts(n, p) ==
    {Part("Node", p, n.kind)}
    \cup
    CASE n.kind = "Heading" -> TreeParts(n.contents, p \o <<1>>)
      [] n.kind = "Expr" -> ExprParts(n.expr, p \o <<1>>)
      [] OTHER -> {}

TreeParts(t, p) ==
    {Part("Tree", p, "Tree")} \cup UNION {NodeParts(t[i], p \o <<i>>) : i \in DOMAIN t}

\* The parts of the tree being walked.
Parts == TreeParts(tree, << >>)

\* The paths of the parts of one sort.
PathsOf(sort) == {x.path : x \in {y \in Parts : y.sort = sort}}

\* The paths of the expressions of one kind.
ExprsOfKind(kind) == {x.path : x \in {y \in Parts : y.sort = "Expr" /\ y.kind = kind}}

\* q lies strictly inside the value at p.
IsBelow(p, q) == Len(p) < Len(q) /\ SubSeq(q, 1, Len(p)) = p

\* The positions in the trace of the calls of `op` on the value at `path`.
Calls(op, path) == {i \in DOMAIN trace : trace[i].op = op /\ trace[i].path = path}

\* The positions in the trace of the calls of `op`.
CallsOf(op) == {i \in DOMAIN trace : trace[i].op = op}

\* Scopes open after the first n calls: visit_enter calls minus visit_exit calls.
Depth(n) ==
    Cardinality({i \in 1..n : trace[i].op = "visit_enter"})
    - Cardinality({i \in 1..n : trace[i].op = "visit_exit"})

(***************************************************************************)
(* C1: in a walk with the default walkers, the number of visit_enter calls *)
(* made so far never falls below the number of visit_exit calls so far,    *)
(* and when the walk returns the two numbers are equal.                    *)
(***************************************************************************)
C1_ScopeBalance ==
    /\ \A n \in 0..Len(trace) : Depth(n) >= 0
    /\ Done => /\ Depth(Len(trace)) = 0
               /\ Cardinality(CallsOf("visit_enter")) = Cardinality(CallsOf("visit_exit"))

\* A finished walk that had two scopes open at once.
C1_Witness ==
    /\ Done
    /\ \E n \in 1..Len(trace) : Depth(n) >= 2

(***************************************************************************)
(* C2: visit_enter and visit_exit are called only for Template             *)
(* expressions and for Block expressions with scoping = TRUE; each such    *)
(* expression gets one visit_enter right after its visit_template or       *)
(* visit_block call and one visit_exit, with exactly the calls on values   *)
(* inside it in between; a Block with scoping = FALSE and every other kind *)
(* gets neither; an exit always closes the scope entered last.             *)
(***************************************************************************)
\* The scopes open after the first n calls, innermost last; <<-1>> marks an
\* exit that did not close the innermost open scope.
RECURSIVE OpenScopes(_)
OpenScopes(n) ==
    IF n = 0 THEN << >>
    ELSE LET s == OpenScopes(n - 1)
             e == trace[n]
         IN  IF s # << >> /\ s[Len(s)] = <<-1>> THEN s
             ELSE IF e.op = "visit_enter" THEN Append(s, e.path)
             ELSE IF e.op = "visit_exit"
                  THEN IF s # << >> /\ s[Len(s)] = e.path
                       THEN SubSeq(s, 1, Len(s) - 1)
                       ELSE Append(s, <<-1>>)
             ELSE s

C2_ScopeHooks ==
    LET scopes == PathsOf("Scope")
        opener(p) == IF p \in ExprsOfKind("Template") THEN "visit_template"
                     ELSE "visit_block"
    IN
    /\ \A i \in DOMAIN trace :
          trace[i].op \in {"visit_enter", "visit_exit"} => trace[i].path \in scopes
    /\ \A p \in ExprsOfKind("Block") \ scopes :
          Calls("visit_enter", p) = {} /\ Calls("visit_exit", p) = {}
    /\ \A n \in 0..Len(trace) :
          LET s == OpenScopes(n) IN s = << >> \/ s[Len(s)] # <<-1>>
    /\ \A p \in scopes :
          /\ Cardinality(Calls("visit_enter", p)) <= 1
          /\ Cardinality(Calls("visit_exit", p)) <= Cardinality(Calls("visit_enter", p))
          /\ \A i \in Calls("visit_enter", p) : i > 1 /\ (i - 1) \in Calls(opener(p), p)
          /\ \A i \in Calls(opener(p), p) :
                Done \/ i < Len(trace) => (i + 1) \in Calls("visit_enter", p)
          /\ \A i \in Calls("visit_enter", p), j \in DOMAIN trace :
                IsBelow(p, trace[j].path) =>
                    /\ i < j
                    /\ \A k \in Calls("visit_exit", p) : j < k
          /\ \A i \in Calls("visit_enter", p), k \in Calls("visit_exit", p) :
                \A j \in (i + 1)..(k - 1) : IsBelow(p, trace[j].path)
    /\ Done => /\ OpenScopes(Len(trace)) = << >>
               /\ \A p \in scopes :
                     /\ Cardinality(Calls("visit_enter", p)) = 1
                     /\ Cardinality(Calls("visit_exit", p)) = 1

\* A finished walk over sibling scopes, a scope inside a scope, a template
\* with content and a non-scoping block.
C2_Witness ==
    /\ Done
    /\ tree = TemplateAmong \/ tree = Everything
    /\ Cardinality(PathsOf("Scope")) >= 2
    /\ \E p \in ExprsOfKind("Template") : \E j \in DOMAIN trace : IsBelow(p, trace[j].path)

(***************************************************************************)
(* C3: visit_binding is called exactly once for each closure parameter,    *)
(* let target and for-pattern identifier of the tree, and for nothing      *)
(* else: not for an Ident expression, a dict key or the name of a named    *)
(* argument.                                                               *)
(***************************************************************************)
C3_BindingHooks ==
    LET bindings == PathsOf("Binding") IN
    /\ \A i \in CallsOf("visit_binding") :
          /\ trace[i].path \in bindings
          /\ trace[i].path \notin PathsOf("Name")
          /\ trace[i].path \notin ExprsOfKind("Ident")
    /\ \A p \in bindings : Cardinality(Calls("visit_binding", p)) <= 1
    /\ Done => /\ \A p \in bindings : Cardinality(Calls("visit_binding", p)) = 1
               /\ Cardinality(CallsOf("visit_binding")) = Cardinality(bindings)

\* A finished walk over a tree with bindings of every sort, a dict key, a
\* named argument and Ident uses.
C3_Witness ==
    /\ Done
    /\ tree = Everything
    /\ {x.kind : x \in {y \in Parts : y.sort = "Binding"}} = {"Param", "Let", "ForValue"}
    /\ {x.kind : x \in {y \in Parts : y.sort = "Name"}} = {"DictKey", "ArgName"}
    /\ Cardinality(CallsOf("visit_binding")) = 3

\* The identifiers bound by the closure or for loop at c.
BoundBy(c) == {p \in PathsOf("Binding") : Len(p) = Len(c) + 2 /\ IsBelow(c \o <<1>>, p)}

\* The trace as a sequence of <<operation, path>> pairs.
OpsOf(tr) == [i \in DOMAIN tr |-> <<tr[i].op, tr[i].path>>]

(***************************************************************************)
(* C4: for every closure, visit_closure is followed by visit_binding on    *)
(* its parameters, first to last, and only then by visit_expr on its body; *)
(* every visit_expr inside the body comes after all of them; a closure     *)
(* without parameters has its body visited and no binding called.          *)
(***************************************************************************)
C4_ClosureParamsFirst ==
    \A c \in ExprsOfKind("Closure") :
      LET n == Cardinality(BoundBy(c))
          body == c \o <<2>>
      IN
      /\ \A d \in Calls("visit_closure", c) :
            /\ \A k \in 1..n :
                  d + k <= Len(trace) => (d + k) \in Calls("visit_binding", c \o <<1, k>>)
            /\ d + n + 1 <= Len(trace) => (d + n + 1) \in Calls("visit_expr", body)
      /\ \A b \in Calls("visit_expr", body) :
            /\ b - n - 1 \in Calls("visit_closure", c)
            /\ \A k \in 1..n : \E i \in Calls("visit_binding", c \o <<1, k>>) : i < b
      /\ \A j \in CallsOf("visit_expr") :
            IsBelow(body, trace[j].path) =>
                /\ \E b \in Calls("visit_expr", body) : b < j
                /\ \A k \in 1..n : \E i \in Calls("visit_binding", c \o <<1, k>>) : i < j
      /\ Done => /\ Cardinality(Calls("visit_expr", body)) = 1
                 /\ Cardinality({i \in CallsOf("visit_binding") : trace[i].path \in BoundBy(c)}) = n

\* A finished walk over a closure with two parameters whose body holds
\* expressions, one of them a closure without parameters.
C4_Witness ==
    /\ Done
    /\ tree = ClosureScoped
    /\ \E c \in ExprsOfKind("Closure") :
          /\ Cardinality(BoundBy(c)) = 2
          /\ \E j \in CallsOf("visit_expr") : IsBelow(c \o <<2>>, trace[j].path)
    /\ \E c \in ExprsOfKind("Closure") :
          BoundBy(c) = {} /\ Calls("visit_expr", c \o <<2>>) # {}

(***************************************************************************)
(* C5: for every for loop, visit_for is followed by the visit_binding      *)
(* calls of its pattern (key before value), then by visit_expr on iter,    *)
(* and visit_expr on the body comes after everything inside iter.  The     *)
(* walk of scenario C is exactly: visit_binding(k), visit_binding(v),      *)
(* visit_expr(iter), visit_expr(body), with no visit_enter or visit_exit.  *)
(***************************************************************************)
C5_ForOrder ==
    /\ \A f \in ExprsOfKind("For") :
          LET n == Cardinality(BoundBy(f))
              iter == f \o <<2>>
              body == f \o <<3>>
          IN
          /\ n \in {1, 2}
          /\ \A d \in Calls("visit_for", f) :
                /\ \A k \in 1..n :
                      d + k <= Len(trace) => (d + k) \in Calls("visit_binding", f \o <<1, k>>)
                /\ d + n + 1 <= Len(trace) => (d + n + 1) \in Calls("visit_expr", iter)
          /\ \A i \in Calls("visit_expr", iter) : i - n - 1 \in Calls("visit_for", f)
          /\ \A b \in Calls("visit_expr", body) :
                /\ \E i \in Calls("visit_expr", iter) : i < b
                /\ \A j \in DOMAIN trace : IsBelow(iter, trace[j].path) => j < b
          /\ \A j \in DOMAIN trace :
                IsBelow(body, trace[j].path) => \E b \in Calls("visit_expr", body) : b < j
          /\ Done => /\ Cardinality(Calls("visit_expr", iter)) = 1
                     /\ Cardinality(Calls("visit_expr", body)) = 1
    /\ Done /\ tree = ScenarioC =>
          /\ OpsOf(trace) =
               << <<"visit_tree", << >> >>,
                  <<"visit_node", <<1>> >>,
                  <<"visit_expr", <<1, 1>> >>,
                  <<"visit_for", <<1, 1>> >>,
                  <<"visit_binding", <<1, 1, 1, 1>> >>,
                  <<"visit_binding", <<1, 1, 1, 2>> >>,
                  <<"visit_expr", <<1, 1, 2>> >>,
                  <<"visit_expr", <<1, 1, 3>> >>,
                  <<"visit_block", <<1, 1, 3>> >> >>
          /\ CallsOf("visit_enter") = {}
          /\ CallsOf("visit_exit") = {}

\* The walk of scenario C has returned.
C5_Witness ==
    /\ Done
    /\ tree = ScenarioC
    /\ Cardinality(CallsOf("visit_binding")) = 2

(***************************************************************************)
(* C6: for every let, visit_binding on the target comes right after        *)
(* visit_let and right before visit_expr on the initializer; without an    *)
(* initializer the binding is the only call the let makes.  The hook and   *)
(* leaf calls of scenario B are visit_enter, visit_binding(x),             *)
(* visit_expr(Lit), visit_exit, in this order.                             *)
(***************************************************************************)
C6_LetOrder ==
    /\ \A l \in ExprsOfKind("Let") :
          LET target == l \o <<1>>
              init == l \o <<2>>
          IN
          /\ \A d \in Calls("visit_let", l) :
                d + 1 <= Len(trace) => (d + 1) \in Calls("visit_binding", target)
          /\ \A b \in Calls("visit_binding", target) : (b - 1) \in Calls("visit_let", l)
          /\ \A i \in Calls("visit_expr", init) : (i - 1) \in Calls("visit_binding", target)
          /\ init \in PathsOf("Expr") /\ Done => Cardinality(Calls("visit_expr", init)) = 1
          /\ init \notin PathsOf("Expr") =>
                /\ \A j \in DOMAIN trace :
                      IsBelow(l, trace[j].path) => j \in Calls("visit_binding", target)
                /\ \A j \in DOMAIN trace :
                      trace[j].path = l => trace[j].op \in {"visit_expr", "visit_let"}
          /\ Done => Cardinality(Calls("visit_binding", target)) = 1
    /\ Done /\ tree = ScenarioB =>
          LET leaves == ExprsOfKind("Lit") \cup ExprsOfKind("Ident")
              Shown(e) == \/ e[1] \in HookOps
                          \/ e[1] = "visit_expr" /\ e[2] \in leaves
          IN SelectSeq(OpsOf(trace), Shown) =
               << <<"visit_enter", <<1, 1>> >>,
                  <<"visit_binding", <<1, 1, 1, 1>> >>,
                  <<"visit_expr", <<1, 1, 1, 2>> >>,
                  <<"visit_exit", <<1, 1>> >> >>

\* The walk of scenario B has returned.
C6_Witness ==
    /\ Done
    /\ tree = ScenarioB
    /\ \E l \in ExprsOfKind("Let") : Calls("visit_expr", l \o <<2>>) # {}

\* A finished walk over a let without initializer.
C6_WitnessNoInit ==
    /\ Done
    /\ \E l \in ExprsOfKind("Let") :
          l \o <<2>> \notin PathsOf("Expr") /\ Calls("visit_binding", l \o <<1>>) # {}

(***************************************************************************)
(* C8: a walk with the default walkers calls visit_node exactly once on    *)
(* every Node of the tree and visit_expr exactly once on every Expr, and   *)
(* on nothing else; likewise the operation of each kind (visit_array,      *)
(* visit_tree, visit_args, ...) is called once per value of that kind, so  *)
(* the number of calls of each operation is the number of such values.     *)
(***************************************************************************)
\* The operation called for an expression of a kind with children.
OpOfKind(kind) ==
    CASE kind = "Array" -> "visit_array"
      [] kind = "Dict" -> "visit_dict"
      [] kind = "Template" -> "visit_template"
      [] kind = "Group" -> "visit_group"
      [] kind = "Block" -> "visit_block"
      [] kind = "Unary" -> "visit_unary"
      [] kind = "Binary" -> "visit_binary"
      [] kind = "Call" -> "visit_call"
      [] kind = "Closure" -> "visit_closure"
      [] kind = "Let" -> "visit_let"
      [] kind = "If" -> "visit_if"
      [] kind = "While" -> "visit_while"
      [] kind = "For" -> "visit_for"

CompoundKinds ==
    {"Array", "Dict", "Template", "Group", "Block", "Unary", "Binary", "Call",
     "Closure", "Let", "If", "While", "For"}

\* The values of the tree the operation `op` is for.
ValuesFor(op) ==
    CASE op = "visit_tree" -> PathsOf("Tree")
      [] op = "visit_node" -> PathsOf("Node")
      [] op = "visit_expr" -> PathsOf("Expr")
      [] op = "visit_args" -> PathsOf("Args")
      [] op = "visit_arg" -> PathsOf("Arg")
      [] OTHER -> UNION {ExprsOfKind(k) : k \in {kk \in CompoundKinds : OpOfKind(kk) = op}}

C8_EveryValueOnce ==
    \A op \in WalkOps :
      /\ \A i \in CallsOf(op) : trace[i].path \in ValuesFor(op)
      /\ \A p \in ValuesFor(op) : Cardinality(Calls(op, p)) <= 1
      /\ Done => /\ \A p \in ValuesFor(op) : Cardinality(Calls(op, p)) = 1
                 /\ Cardinality(CallsOf(op)) = Cardinality(ValuesFor(op))

\* A finished walk over the tree that holds every kind of expression.
C8_Witness ==
    /\ Done
    /\ tree = Everything
    /\ {x.kind : x \in {y \in Parts : y.sort = "Expr"}} = CompoundKinds \cup {"Lit", "Ident"}
    /\ Cardinality(CallsOf("visit_expr")) = Cardinality(PathsOf("Expr"))

(***************************************************************************)
(* C10: the bindings of a closure or for loop are called at the scope      *)
(* depth at which visit_closure / visit_for was called, and so is          *)
(* visit_expr on the iter of a for loop; all of them come before the       *)
(* visit_enter of a body that opens a scope, never between that            *)
(* visit_enter and its visit_exit.                                         *)
(***************************************************************************)
C10_BindingsOutsideBody ==
    \A c \in ExprsOfKind("Closure") \cup ExprsOfKind("For") :
      LET isFor == c \in ExprsOfKind("For")
          op == IF isFor THEN "visit_for" ELSE "visit_closure"
          body == IF isFor THEN c \o <<3>> ELSE c \o <<2>>
          early == {i \in DOMAIN trace :
                      \/ trace[i].op = "visit_binding" /\ trace[i].path \in BoundBy(c)
                      \/ isFor /\ trace[i].op = "visit_expr" /\ trace[i].path = c \o <<2>>}
      IN
      \A b \in early :
        /\ \E d \in Calls(op, c) : d < b /\ Depth(b) = Depth(d) /\ Depth(b - 1) = Depth(d - 1)
        /\ \A e \in Calls("visit_enter", body) : b < e
        /\ \A j \in DOMAIN trace : IsBelow(body, trace[j].path) => b < j
        /\ ~\E e \in Calls("visit_enter", body), x \in Calls("visit_exit", body) : e < b /\ b < x

\* A finished walk over a for loop inside the scope of another for loop's
\* body, each with a body that opens a scope.
C10_Witness ==
    /\ Done
    /\ tree = ForScoped
    /\ \E c \in ExprsOfKind("For") :
          /\ Calls("visit_enter", c \o <<3>>) # {}
          /\ \E b \in CallsOf("visit_binding") : trace[b].path \in BoundBy(c) /\ Depth(b) = 1

\* A finished walk over a closure with parameters whose body opens a scope.
C10_WitnessClosure ==
    /\ Done
    /\ \E c \in ExprsOfKind("Closure") :
          BoundBy(c) # {} /\ Calls("visit_enter", c \o <<2>>) # {}

(***************************************************************************)
(* C7: a visitor whose visit_template has an empty body makes no call on   *)
(* anything inside a template of the tree and no visit_enter / visit_exit  *)
(* for the template; the calls it does make are the calls of the default   *)
(* walk that lie outside templates, in the same order.                     *)
(***************************************************************************)
TemplateSkipper == [override |-> "visit_template", delegate |-> FALSE]

\* The call e is made for a template's scope or on a value inside a template.
InTemplate(e) ==
    \E t \in ExprsOfKind("Template") :
        \/ IsBelow(t, e[2])
        \/ e[2] = t /\ e[1] \in {"visit_enter", "visit_exit"}

C7_TemplateSkipped ==
    visitor = TemplateSkipper =>
      LET NotInTemplate(e) == ~InTemplate(e)
          outside == SelectSeq(OpsOf(DefaultTrace(tree)), NotInTemplate)
          mine == OpsOf(trace)
      IN
      /\ \A i \in DOMAIN mine : ~InTemplate(mine[i])
      /\ Len(mine) <= Len(outside)
      /\ mine = SubSeq(outside, 1, Len(mine))
      /\ Done => mine = outside

\* A finished walk by that visitor over a template with nested content,
\* which went on to the nodes after the template.
C7_Witness ==
    /\ Done
    /\ visitor = TemplateSkipper
    /\ tree = TemplateAmong
    /\ \E i \in DOMAIN trace : trace[i].over /\ trace[i].path = <<2, 1, 1>>
    /\ Calls("visit_expr", <<2, 1, 2>>) # {}
    /\ Calls("visit_node", <<3>>) # {}
    /\ \E x \in Parts : x.sort = "Expr" /\ IsBelow(<<2, 1, 1>>, x.path)

(***************************************************************************)
(* C9 as stated: whatever the body of the override, the override of        *)
(* visit_K is called as many times as the default walk calls visit_K.      *)
(***************************************************************************)
C9_OverrideCountAsStated ==
    Done =>
      LET dt == DefaultTrace(tree) IN
      Cardinality({i \in DOMAIN trace : trace[i].over})
        = Cardinality({i \in DOMAIN dt : dt[i].op = visitor.override})

(***************************************************************************)
(* C9, amended: the override of visit_K is only ever called on values of   *)
(* kind K, at most once each; when its body calls the default walker       *)
(* visit_K, it is called exactly once on every value of kind K of the      *)
(* tree, at any depth (on both expressions of a group inside a heading),   *)
(* as many times as the default walk calls visit_K, and the walk makes the *)
(* same calls in the same order as the default walk; when its body does    *)
(* not call the walker, no call is made on anything inside a value the     *)
(* override was called on.                                                 *)
(***************************************************************************)
C9_OverrideIntercepts ==
    LET K == visitor.override
        mine == {i \in DOMAIN trace : trace[i].over}
        dt == DefaultTrace(tree)
    IN
    /\ \A i \in mine : trace[i].op = K /\ trace[i].path \in ValuesFor(K)
    /\ \A i \in CallsOf(K) : i \in mine
    /\ \A p \in ValuesFor(K) : Cardinality(Calls(K, p)) <= 1
    /\ visitor.delegate /\ Done =>
          /\ \A p \in ValuesFor(K) : Cardinality(Calls(K, p) \cap mine) = 1
          /\ Cardinality(mine) = Cardinality(ValuesFor(K))
          /\ Cardinality(mine) = Cardinality({i \in DOMAIN dt : dt[i].op = K})
          /\ OpsOf(trace) = OpsOf(dt)
          /\ tree = HeadingGroup /\ K = "visit_expr" =>
                {trace[i].path : i \in mine} = {<<1, 1, 1, 1>>, <<1, 1, 1, 1, 1>>}
    /\ ~visitor.delegate =>
          \A i \in mine, j \in DOMAIN trace : ~IsBelow(trace[i].path, trace[j].path)

\* A finished walk by a visitor whose visit_expr calls the default walker,
\* over an expression inside a group inside a heading.
C9_Witness ==
    /\ Done
    /\ tree = HeadingGroup
    /\ visitor = [override |-> "visit_expr", delegate |-> TRUE]
    /\ \E i \in DOMAIN trace : trace[i].over /\ trace[i].path = <<1, 1, 1, 1, 1>>
====
